---------------------------- MODULE Spec2Model ----------------------------
(***************************************************************************)
(* A model of pycamunda: the credential resolver (connector.py,            *)
(* AccessCredentials), the schema-validated Entity (entity.py) and the     *)
(* Camunda connector (connector.py, Endpoint and Camunda).                 *)
(*                                                                         *)
(* Python text is a sequence of one-character strings; Python values are   *)
(* records tagged by their type in the field t, the payload in a field     *)
(* named after the type.  A call that may raise returns a record           *)
(* [exc, val]: exc is "none" or the exception's class.                     *)
(***************************************************************************)
EXTENDS Integers, Sequences, FiniteSets, TLC

VARIABLES
    system,     \* the host: environment variables and files (system.py)
    resolver,   \* the AccessCredentials object under construction / built
    entity,     \* the Entity under construction / built
    camunda,    \* the Camunda connector: base_url, headers, auth
    cache,      \* Camunda.cache: cache key -> decoded response object
    parameters, \* Endpoint.parameters of each endpoint instance
    call,       \* the caller's last call on the connector or on an endpoint:
                \* arguments, request, outcome
    ncalls,     \* the number of calls the caller made
    stats,      \* per endpoint, the cache=True dispatches that returned a
                \* decoded response, the HTTP requests they performed and
                \* the object the first of them returned
    frame       \* the communicate_with call in progress: its position, its
                \* arguments, the calls of requests.request it made and
                \* the response it holds

credentialVars == <<system, resolver>>
entityVars == <<entity>>
connectorVars == <<camunda, cache, parameters, call, ncalls, stats, frame>>
vars == <<system, resolver, entity, camunda, cache, parameters, call, ncalls,
          stats, frame>>

-----------------------------------------------------------------------------
(*                              Python values                              *)

None == [t |-> "None"]
Str(s) == [t |-> "str", s |-> s]
Ok(v) == [exc |-> "none", val |-> v]
Raise(e) == [exc |-> e, val |-> None]

\* the longest text an environment variable or a credentials file holds
MaxCredLen == 3

CredChars == {"u", ":", " "}
Whitespace == {" ", "\t", "\n", "\r"}

TextUpTo(chars, n) == UNION {[1..k -> chars] : k \in 0..n}

-----------------------------------------------------------------------------
(*                     str.strip, str.split, str.format                    *)

RECURSIVE lstrip(_)
lstrip(s) ==
    IF s # <<>> /\ Head(s) \in Whitespace THEN lstrip(Tail(s)) ELSE s

RECURSIVE rstrip(_)
rstrip(s) ==
    IF s # <<>> /\ s[Len(s)] \in Whitespace
    THEN rstrip(SubSeq(s, 1, Len(s) - 1)) ELSE s

\* s.strip()
strip(s) == rstrip(lstrip(s))

\* the index of the first sep in s, 0 when there is none
RECURSIVE find_from(_, _, _)
find_from(s, sep, i) ==
    IF i > Len(s) THEN 0
    ELSE IF s[i] = sep THEN i ELSE find_from(s, sep, i + 1)

\* s.split(sep, 1): the list of the one or two pieces
split1(s, sep) ==
    LET i == find_from(s, sep, 1)
    IN  IF i = 0 THEN <<s>>
        ELSE <<SubSeq(s, 1, i - 1), SubSeq(s, i + 1, Len(s))>>

\* str(x) as '{}'.format(x) renders it
str_of(x) == IF x = None THEN <<"N", "o", "n", "e">> ELSE x.s

\* '{}:{}'.format(user, password)
format_pair(user, password) == str_of(user) \o <<":">> \o str_of(password)

-----------------------------------------------------------------------------
(*                 System (system.py), as the resolver uses it             *)

\* the key of the credential classes below, and its two spellings
Key == "pycamunda"
upper(name) == IF name = "pycamunda" THEN "PYCAMUNDA" ELSE name
lower(name) == IF name = "PYCAMUNDA" THEN "pycamunda" ELSE name

Names == {"pycamunda", "PYCAMUNDA"}

CredTexts == TextUpTo(CredChars, MaxCredLen)
\* what a name that the resolver must not read may hold
DecoyText == <<"d", ":", "d">>

Absent == [t |-> "absent"]
Unreadable == [t |-> "unreadable"]
File(s) == [t |-> "file", v |-> s]

EnvValues(name) ==
    {None} \cup {Str(s) : s \in IF name = upper(Key) THEN CredTexts ELSE {DecoyText}}
FileValues(name) ==
    IF name = lower(Key)
    THEN {Absent, Unreadable} \cup {File(s) : s \in CredTexts}
    ELSE {Absent, File(DecoyText)}

Systems ==
    {[env |-> e, files |-> f] :
        e \in {g \in [Names -> UNION {EnvValues(n) : n \in Names}] :
                  \A n \in Names : g[n] \in EnvValues(n)},
        f \in {g \in [Names -> UNION {FileValues(n) : n \in Names}] :
                  \A n \in Names : g[n] \in FileValues(n)}}

\* os.getenv(key, default=None)
get_environment_variable(sys, key) == sys.env[key]

\* os.path.isfile(path)
is_file(sys, path) == sys.files[path].t # "absent"

\* open(path, 'rb').read()
read_file(sys, path) ==
    IF sys.files[path].t = "file" THEN Ok(Str(sys.files[path].v))
    ELSE Raise("IOError")

-----------------------------------------------------------------------------
(*                 AccessCredentials (connector.py 16-131)                 *)

\* AccessCredentials stands for a subclass that defines key and keeps the
\* default process_credentials hook.
CredentialClasses == {"AccessCredentials", "UsernamePasswordAccessCredentials"}

UsernamePasswordPair(u, p) == [t |-> "pair", username |-> u, password |-> p]

\* the exceptions the except clause of find_credentials catches
ReadErrorsCaught == {"IOError", "OSError", "EnvironmentError", "ValueError"}

\* a resolver that looks for the file before the environment variable
find_credentials_file_first(sys, key) ==
    LET environment_value == get_environment_variable(sys, upper(key))
        file_name == lower(key)
        read == read_file(sys, file_name)
    IN  IF is_file(sys, file_name) /\ read.exc = "none"
        THEN Ok(Str(strip(read.val.s)))
        ELSE IF environment_value # None
             THEN Ok(Str(strip(environment_value.s)))
             ELSE Ok(None)

find_credentials(sys, key) ==
    LET environment_value == get_environment_variable(sys, upper(key))
        file_name == lower(key)
        read == read_file(sys, file_name)
    IN  IF environment_value # None
        THEN Ok(Str(strip(environment_value.s)))
        ELSE IF is_file(sys, file_name)
             THEN IF read.exc = "none" THEN Ok(Str(strip(read.val.s)))
                  ELSE IF read.exc \in ReadErrorsCaught THEN Ok(None)
                  ELSE Raise(read.exc)
             ELSE Ok(None)

process_credentials(cls, credentials) ==
    IF cls = "UsernamePasswordAccessCredentials"
    THEN LET parts == split1(credentials.s, ":")
         IN  IF Len(parts) # 2 THEN Raise("ValueError")
             ELSE Ok(UsernamePasswordPair(Str(strip(parts[1])), Str(strip(parts[2]))))
    ELSE Ok(credentials)

\* an __init__ without the except clause
NoErrorsCaught == {}

\* the exceptions the except clause of __init__ catches
ProcessErrorsCaught == {"ValueError"}

\* AccessCredentials.__init__(credentials, system): the credentials attribute
\* of the new object, or the exception that leaves no object
AccessCredentials_init(cls, credentials, sys) ==
    IF credentials # None THEN Ok(credentials)
    ELSE LET found == find_credentials(sys, Key)
             processed == process_credentials(cls, found.val)
         IN  IF found.exc # "none" THEN found
             ELSE IF found.val = None THEN Ok(None)
             ELSE IF processed.exc = "none" THEN processed
             ELSE IF processed.exc \in ProcessErrorsCaught THEN Ok(None)
             ELSE processed

\* line 97, `user is None != password is None`: Python chains the comparison
\* as (user is None) and (None != password) and (password is None)
user_password_mismatch(user, password) ==
    (user = None) /\ (None # password) /\ (password = None)

\* UsernamePasswordAccessCredentials.__init__(system, user, password)
UsernamePasswordAccessCredentials_init(user, password, sys) ==
    IF user_password_mismatch(user, password) THEN Raise("ValueError")
    ELSE AccessCredentials_init("UsernamePasswordAccessCredentials",
             IF user # None THEN Str(format_pair(user, password)) ELSE None, sys)

\* what a caller passes as credentials, user or password
ExplicitValues == {None, Str(<<"u">>), Str(<<" ", "p">>)}

\* an accessor the caller has not read
Unread == [exc |-> "unread", val |-> None]

NoResolver ==
    [pc |-> "new", cls |-> "none", credentials_arg |-> None, user |-> None,
     password |-> None, exc |-> "none", credentials |-> None,
     got_username |-> Unread, got_password |-> Unread]

Built(cls, arg, user, password, r) ==
    [pc |-> "done", cls |-> cls, credentials_arg |-> arg, user |-> user,
     password |-> password, exc |-> r.exc, credentials |-> r.val,
     got_username |-> Unread, got_password |-> Unread]

\* resolver = SomeAccessCredentials(credentials=credentials)
NewAccessCredentials(credentials) ==
    /\ resolver.pc = "new"
    /\ resolver' = Built("AccessCredentials", credentials, None, None,
                       AccessCredentials_init("AccessCredentials", credentials, system))
    /\ UNCHANGED <<system, entityVars, connectorVars>>

\* resolver = UsernamePasswordAccessCredentials(user=user, password=password)
NewUsernamePasswordAccessCredentials(user, password) ==
    /\ resolver.pc = "new"
    /\ resolver' = Built("UsernamePasswordAccessCredentials", None, user, password,
                       UsernamePasswordAccessCredentials_init(user, password, system))
    /\ UNCHANGED <<system, entityVars, connectorVars>>

\* UsernamePasswordAccessCredentials.username / .password
username(credentials) ==
    IF credentials = None THEN Ok(None)
    ELSE IF credentials.t = "pair" THEN Ok(credentials.username)
    ELSE Raise("AttributeError")
password(credentials) ==
    IF credentials = None THEN Ok(None)
    ELSE IF credentials.t = "pair" THEN Ok(credentials.password)
    ELSE Raise("AttributeError")

\* the caller reads resolver.username and resolver.password
ReadAccessors ==
    /\ resolver.pc = "done" /\ resolver.exc = "none"
    /\ resolver.cls = "UsernamePasswordAccessCredentials"
    /\ resolver' = [resolver EXCEPT !.pc = "read",
                                   !.got_username = username(resolver.credentials),
                                   !.got_password = password(resolver.credentials)]
    /\ UNCHANGED <<system, entityVars, connectorVars>>

\* no entity was constructed
NoEntity == [pc |-> "new", cls |-> "none", raw |-> None, exc |-> "none", val |-> None]

\* no connector was constructed and no call made
NoCamunda == [t |-> "none"]
NoCall ==
    [op |-> "none", endpoint |-> 0, kwargs |-> [key \in {} |-> None],
     payload |-> None, cache |-> FALSE, http |-> 0, request |-> None,
     response |-> None, exc |-> "none", error |-> None, val |-> None,
     stored |-> FALSE, decoder_input |-> None]
\* no communicate_with call is in progress
NoFrame ==
    [pc |-> "idle", endpoint |-> 0, payload |-> None, cache |-> FALSE,
     exchanges |-> 0, response |-> None]
NoConnector ==
    /\ frame = NoFrame
    /\ camunda = NoCamunda
    /\ cache = [key \in {} |-> None]
    /\ parameters = [e \in {} |-> None]
    /\ call = NoCall
    /\ ncalls = 0
    /\ stats = [e \in {} |-> None]

InitCredentials ==
    /\ system \in Systems
    /\ resolver = NoResolver
    /\ entity = NoEntity
    /\ NoConnector

NextCredentials ==
    \/ \E c \in ExplicitValues : NewAccessCredentials(c)
    \/ \E u, p \in ExplicitValues : NewUsernamePasswordAccessCredentials(u, p)
    \/ ReadAccessors

SpecCredentials == InitCredentials /\ [][NextCredentials]_vars

-----------------------------------------------------------------------------
(*                  JSON wire text and json.loads (entity.py 149)          *)

\* Wire text is a sequence of tokens: a punctuation character, or a whole
\* string, number or keyword literal.
P(c) == [t |-> "char", v |-> c]
S(a) == [t |-> "string", v |-> a]
N(n) == [t |-> "number", n |-> n]
W(w) == [t |-> "word", v |-> w]

\* the values json.loads builds
Num(n) == [t |-> "int", n |-> n]
Uni(a) == [t |-> "unicode", u |-> a]
Bool(b) == [t |-> "bool", b |-> b]
List(l) == [t |-> "list", l |-> l]
Dict(d) == [t |-> "dict", d |-> d]
EmptyDict == [key \in {} |-> None]

SetItem(d, key, val) ==
    [x \in DOMAIN d \cup {key} |-> IF x = key THEN val ELSE d[x]]

Parsed(v, i) == [ok |-> TRUE, val |-> v, next |-> i]
ParseError == [ok |-> FALSE, val |-> None, next |-> 0]

IsAt(ts, i, c) == i <= Len(ts) /\ ts[i] = P(c)

RECURSIVE ParseValue(_, _)
RECURSIVE ParseMembers(_, _, _)
RECURSIVE ParseElements(_, _, _)

\* the members of an object from the key at ts[i] on
ParseMembers(ts, i, acc) ==
    IF ~(i + 1 <= Len(ts) /\ ts[i].t = "string" /\ ts[i + 1] = P(":"))
    THEN ParseError
    ELSE LET r == ParseValue(ts, i + 2)
             d == SetItem(acc, ts[i].v, r.val)
         IN  IF ~r.ok THEN ParseError
             ELSE IF IsAt(ts, r.next, "}") THEN Parsed(Dict(d), r.next + 1)
             ELSE IF IsAt(ts, r.next, ",") THEN ParseMembers(ts, r.next + 1, d)
             ELSE ParseError

\* the elements of an array from the value at ts[i] on
ParseElements(ts, i, acc) ==
    LET r == ParseValue(ts, i)
        l == Append(acc, r.val)
    IN  IF ~r.ok THEN ParseError
        ELSE IF IsAt(ts, r.next, "]") THEN Parsed(List(l), r.next + 1)
        ELSE IF IsAt(ts, r.next, ",") THEN ParseElements(ts, r.next + 1, l)
        ELSE ParseError

ParseValue(ts, i) ==
    IF i > Len(ts) THEN ParseError
    ELSE LET tok == ts[i]
         IN  CASE tok.t = "number" -> Parsed(Num(tok.n), i + 1)
               [] tok.t = "string" -> Parsed(Uni(tok.v), i + 1)
               [] tok.t = "word" ->
                      IF tok.v = "null" THEN Parsed(None, i + 1)
                      ELSE IF tok.v = "true" THEN Parsed(Bool(TRUE), i + 1)
                      ELSE IF tok.v = "false" THEN Parsed(Bool(FALSE), i + 1)
                      ELSE ParseError
               [] tok = P("{") ->
                      IF IsAt(ts, i + 1, "}") THEN Parsed(Dict(EmptyDict), i + 2)
                      ELSE ParseMembers(ts, i + 1, EmptyDict)
               [] tok = P("[") ->
                      IF IsAt(ts, i + 1, "]") THEN Parsed(List(<<>>), i + 2)
                      ELSE ParseElements(ts, i + 1, <<>>)
               [] OTHER -> ParseError

\* json.loads(raw): ValueError for text that is no JSON document, TypeError
\* for a raw value that is no text.  Wire text is a str of tokens; the
\* unicode texts of this model are no JSON documents.
json_loads(raw) ==
    IF raw.t = "unicode" THEN Raise("ValueError")
    ELSE IF raw.t # "str" THEN Raise("TypeError")
    ELSE LET r == ParseValue(raw.s, 1)
         IN  IF r.ok /\ r.next = Len(raw.s) + 1 THEN Ok(r.val)
             ELSE Raise("ValueError")

-----------------------------------------------------------------------------
(*              Schemas (voluptuous) of the entity classes                 *)

\* validators
Number == [t |-> "Number"]
Text == [t |-> "Text"]
Identifier == [t |-> "Identifier"]
Timestamp == [t |-> "Timestamp"]
Coerce(cls) == [t |-> "Coerce", cls |-> cls]
ListOf(validator) == [t |-> "list", of |-> validator]
Literal(val) == [t |-> "Literal", value |-> val]
AnyOf(vals) == [t |-> "Any", of |-> vals]
BoolType == [t |-> "bool"]
CoerceEnum(cls) == [t |-> "CoerceEnum", cls |-> cls]
\* a key of a dict schema: plain, or under the Optional marker
Plain(validator) == [validator |-> validator, marker |-> "plain"]
Optional(validator) == [validator |-> validator, marker |-> "Optional"]
Schema(fields, required) == [t |-> "dict", fields |-> fields, required |-> required]

\* caller-side text: a str of characters
Txt(chars) == Str(chars)
Asc == Txt(<<"a", "s", "c">>)
Desc == Txt(<<"d", "e", "s", "c">>)

\* the values of the members of an Enum class (common.py 21-45), of
\* ResourceType those of Task and Deployment
EnumValues(cls) ==
    CASE cls = "SortOrder" -> {Asc, Desc}
      [] cls = "ResourceType" -> {Num(7), Num(9)}
      [] OTHER -> {}
EnumMember(cls, val) == [t |-> "enum", cls |-> cls, value |-> val]

\* the JsonEntity classes, built from a response
EntityClasses == {"Count", "Deployment", "DeploymentList"}
\* the JsonInputEntity classes, built from keyword arguments
InputEntityClasses == {"DeploymentListParameters", "DeploymentDeletionRequest"}
\* the classes of authorization.py 125-148
AuthorizationClasses == {"AuthorizationCheckParameters", "AuthorizationCheckResult"}

schema(cls) ==
    CASE cls = "Count" -> Schema([count |-> Plain(Number)], TRUE)
      [] cls = "DeploymentListParameters" ->
             Schema([id |-> Plain(Text), name |-> Plain(Text), nameLike |-> Plain(Text),
                     source |-> Plain(Text), withoutSource |-> Plain(Literal(Bool(TRUE))),
                     tenantIdIn |-> Plain(Text),
                     withoutTenantId |-> Plain(Literal(Bool(TRUE))),
                     includeDeploymentsWithoutTenantId |-> Plain(Literal(Bool(TRUE))),
                     after |-> Plain(Timestamp), before |-> Plain(Timestamp),
                     sortBy |-> Plain(AnyOf({Txt(<<"i", "d">>), Txt(<<"n", "a", "m", "e">>)})),
                     sortOrder |-> Plain(CoerceEnum("SortOrder")),
                     firstResult |-> Plain(Number), maxResults |-> Plain(Number)],
                    FALSE)
      [] cls = "DeploymentDeletionRequest" ->
             Schema([cascade |-> Plain(BoolType), skipCustomListeners |-> Plain(BoolType)],
                    FALSE)
      [] cls = "Deployment" ->
             Schema([id |-> Plain(Identifier), name |-> Plain(Identifier),
                     source |-> Plain(Identifier), deploymentTime |-> Plain(Timestamp),
                     tenantId |-> Optional(Identifier), links |-> Optional(ListOf(Text))],
                    TRUE)
      [] cls = "DeploymentList" -> ListOf(Coerce("Deployment"))
      [] cls = "AuthorizationCheckParameters" ->
             Schema([permissionName |-> Plain(Text), permissionValue |-> Plain(Text),
                     resourceName |-> Plain(Text),
                     resourceType |-> Plain(CoerceEnum("ResourceType")),
                     resourceId |-> Optional(Text)],
                    TRUE)
      [] cls = "AuthorizationCheckResult" ->
             Schema([permissionName |-> Plain(Text), resourceName |-> Plain(Text),
                     resourceId |-> Plain(Identifier), isAuthorized |-> Plain(BoolType)],
                    TRUE)

\* every entity class here is a JsonEntity
decoder(cls, raw) == json_loads(raw)

\* the texts dateutil's parse reads as a date
DateTexts == {"2020-01-01T00:00:00Z"}

\* dateutil.parser.parse(data): a datetime, ValueError for a text that is no
\* date, TypeError for what is no text
parse(data) ==
    IF data.t \notin {"str", "unicode"} THEN Raise("TypeError")
    ELSE IF data.t = "unicode" /\ data.u \in DateTexts
         THEN Ok([t |-> "datetime", at |-> data.u])
    ELSE Raise("ValueError")

\* the classes of voluptuous.Error that validation raises
VoluptuousErrors == {"voluptuous.Invalid"}
Invalid == Raise("voluptuous.Invalid")

\* the exceptions voluptuous.Coerce turns into Invalid
CoerceCaught == {"ValueError", "TypeError"}
\* the exceptions voluptuous turns into Invalid when a callable validator raises
CallableCaught == {"ValueError"}

IsInstance(data, types) == data.t \in types

\* Python's ==, for which True equals 1 and False equals 0
PyEqual(a, b) ==
    \/ a = b
    \/ \E n \in {0, 1} : {a, b} = {Num(n), Bool(n = 1)}

EntityObject(cls, raw, decoded) ==
    [t |-> "entity", cls |-> cls, raw |-> raw, decoded |-> decoded]

RECURSIVE Entity_init(_, _)
RECURSIVE Validate(_, _)

\* voluptuous on a dict schema: an exception that is no Invalid leaves at
\* once; wrong values, extra keys and missing required keys make Invalid
ValidateMapping(sch, data) ==
    IF data.t # "dict" THEN Invalid
    ELSE LET d == data.d
             known == DOMAIN d \cap DOMAIN sch.fields
             results == [key \in known |-> Validate(sch.fields[key].validator, d[key])]
             escaping == {key \in known :
                             results[key].exc \notin {"none"} \cup VoluptuousErrors}
             invalid == {key \in known : results[key].exc \in VoluptuousErrors}
             extra == DOMAIN d \ DOMAIN sch.fields
             missing == {key \in DOMAIN sch.fields \ DOMAIN d :
                            sch.required /\ sch.fields[key].marker # "Optional"}
         IN  IF escaping # {} THEN results[CHOOSE key \in escaping : TRUE]
             ELSE IF invalid \cup extra \cup missing # {} THEN Invalid
             ELSE Ok(Dict([key \in DOMAIN d |-> results[key].val]))

\* voluptuous on a list schema with one element validator
ValidateSequence(validator, data) ==
    IF data.t # "list" THEN Invalid
    ELSE LET l == data.l
             results == [i \in 1..Len(l) |-> Validate(validator, l[i])]
             escaping == {i \in 1..Len(l) :
                             results[i].exc \notin {"none"} \cup VoluptuousErrors}
             invalid == {i \in 1..Len(l) : results[i].exc \in VoluptuousErrors}
         IN  IF escaping # {}
             THEN results[CHOOSE i \in escaping : \A j \in escaping : i <= j]
             ELSE IF invalid # {} THEN Invalid
             ELSE Ok(List([i \in 1..Len(l) |-> results[i].val]))

Validate(validator, data) ==
    CASE validator.t = "Number" ->
             IF IsInstance(data, {"int", "bool", "long", "float"}) THEN Ok(data) ELSE Invalid
      [] validator.t = "Text" ->
             IF IsInstance(data, {"str", "unicode"}) THEN Ok(data) ELSE Invalid
      [] validator.t = "Identifier" ->
             IF IsInstance(data, {"str", "unicode"}) \/ data = None THEN Ok(data) ELSE Invalid
      [] validator.t = "Timestamp" ->
             LET r == parse(data)
             IN  IF r.exc \in CallableCaught THEN Invalid ELSE r
      [] validator.t = "Coerce" ->
             LET r == Entity_init(validator.cls, data)
             IN  IF r.exc \in CoerceCaught THEN Invalid ELSE r
      [] validator.t = "Literal" ->
             IF PyEqual(data, validator.value) THEN Ok(data) ELSE Invalid
      [] validator.t = "Any" ->
             IF \E val \in validator.of : PyEqual(data, val) THEN Ok(data) ELSE Invalid
      [] validator.t = "bool" ->
             IF IsInstance(data, {"bool"}) THEN Ok(data) ELSE Invalid
      [] validator.t = "CoerceEnum" ->
             IF data.t = "enum" /\ data.cls = validator.cls THEN Ok(data)
             ELSE IF data \in EnumValues(validator.cls)
                  THEN Ok(EnumMember(validator.cls, data))
             ELSE Invalid
      [] validator.t = "list" -> ValidateSequence(validator.of, data)
      [] validator.t = "dict" -> ValidateMapping(validator, data)

-----------------------------------------------------------------------------
(*                       Entity (entity.py 39-149)                         *)

\* Entity.__init__(raw): the new entity, or the exception that leaves none
Entity_init(cls, raw) ==
    LET decoded_raw == IF raw.t # "dict" THEN decoder(cls, raw) ELSE Ok(raw)
        validated == Validate(schema(cls), decoded_raw.val)
        failure == IF decoded_raw.exc # "none" THEN decoded_raw.exc ELSE validated.exc
    IN  IF failure = "none" THEN Ok(EntityObject(cls, raw, validated.val))
        ELSE IF failure \in VoluptuousErrors THEN Raise("InvalidEntity")
        ELSE Raise("MalformedEntity")

\* the longest list among the structured inputs
MaxListLen == 2

DelItem(d, key) == [x \in DOMAIN d \ {key} |-> d[x]]

GoodCount == Dict([count |-> Num(1)])
GoodDeployment ==
    Dict([id |-> Uni("d1"), name |-> Uni("dep"), source |-> Uni("x"),
          deploymentTime |-> Uni("2020-01-01T00:00:00Z")])

\* values put in the place of a field's value, and keys added to a dict
OtherValues == {Num(7), None, Uni("x"), List(<<Uni("x")>>)}
OtherKeys == {"tenantId", "links", "bogus"}

\* d itself, d without one key, and d with one key set to another value
Variants(dict) ==
    {dict}
    \cup {Dict(DelItem(dict.d, key)) : key \in DOMAIN dict.d}
    \cup {Dict(SetItem(dict.d, key, val)) :
              key \in DOMAIN dict.d \cup OtherKeys, val \in OtherValues}

DictInputs == Variants(GoodCount) \cup Variants(GoodDeployment)

ListElements ==
    {GoodDeployment, Dict(DelItem(GoodDeployment.d, "id")),
     Dict(SetItem(GoodDeployment.d, "name", Num(7))), Num(7)}
ListInputs == {List(l) : l \in UNION {[1..n -> ListElements] : n \in 0..MaxListLen}}

ScalarInputs == {Num(7), None, Uni("x"), Bool(TRUE)}
StructuredInputs == DictInputs \cup ListInputs \cup ScalarInputs

RECURSIVE dumps(_)
RECURSIVE DumpMembers(_, _)
RECURSIVE DumpElements(_, _)

DumpMembers(d, keys) ==
    IF keys = {} THEN <<>>
    ELSE LET key == CHOOSE x \in keys : TRUE
         IN  <<S(key), P(":")>> \o dumps(d[key])
             \o (IF keys = {key} THEN <<>> ELSE <<P(",")>>)
             \o DumpMembers(d, keys \ {key})

DumpElements(l, i) ==
    IF i > Len(l) THEN <<>>
    ELSE dumps(l[i]) \o (IF i = Len(l) THEN <<>> ELSE <<P(",")>>)
         \o DumpElements(l, i + 1)

\* the JSON text of a value
dumps(val) ==
    CASE val.t = "int" -> <<N(val.n)>>
      [] val.t = "unicode" -> <<S(val.u)>>
      [] val.t = "bool" -> <<W(IF val.b THEN "true" ELSE "false")>>
      [] val.t = "None" -> <<W("null")>>
      [] val.t = "list" -> <<P("[")>> \o DumpElements(val.l, 1) \o <<P("]")>>
      [] val.t = "dict" -> <<P("{")>> \o DumpMembers(val.d, DOMAIN val.d) \o <<P("}")>>

\* text without its i-th token
DropToken(text, i) == SubSeq(text, 1, i - 1) \o SubSeq(text, i + 1, Len(text))

\* the JSON text of every structured input, whole and with one token lost
TextInputs ==
    LET whole == {dumps(val) : val \in StructuredInputs}
    IN  whole \cup
        UNION {{DropToken(text, i) : i \in 1..Len(text)} : text \in whole}

\* what a caller passes to an entity class: wire text, a dict, or by mistake
\* another decoded value
RawInputs == {Str(text) : text \in TextInputs} \cup DictInputs \cup ListInputs \cup ScalarInputs

\* entity = cls(raw)
NewEntity(cls, raw) ==
    /\ entity.pc = "new"
    /\ LET r == Entity_init(cls, raw)
       IN  entity' = [pc |-> "done", cls |-> cls, raw |-> raw, exc |-> r.exc, val |-> r.val]
    /\ UNCHANGED <<credentialVars, connectorVars>>

\* the keyword arguments a caller passes to with_parameters and to an input entity
KwargsInputs ==
    {[key \in {} |-> None], [maxResults |-> Num(1)], [sortOrder |-> Asc],
     [cascade |-> Bool(TRUE)], [bogus |-> Num(1)]}

\* every JsonInputEntity class of the model
JsonInputEntityClasses == InputEntityClasses \cup {"AuthorizationCheckParameters"}

\* cls(raw), one positional argument: JsonInputEntity.__init__ takes keyword
\* arguments only
new_entity(cls, raw) ==
    IF cls \in JsonInputEntityClasses THEN Raise("TypeError")
    ELSE Entity_init(cls, raw)

\* cls(**kwargs): Entity.__init__ takes one positional argument
new_entity_kw(cls, kwargs) ==
    IF cls \in JsonInputEntityClasses THEN Entity_init(cls, Dict(kwargs))
    ELSE Raise("TypeError")

\* Entity.build(**kwargs)
build(cls, kwargs) == new_entity(cls, Dict(kwargs))

\* ent.to_requests(), which RequestsInput declares and JsonInputEntity defines
to_requests(ent) ==
    IF ent.cls \in JsonInputEntityClasses THEN Ok(Dict([data |-> ent]))
    ELSE Raise("AttributeError")

\* the fields a caller passes to build
BuildInputs == {d.d : d \in DictInputs} \cup KwargsInputs

\* entity = cls.build(**kwargs)
BuildEntity(cls, kwargs) ==
    /\ entity.pc = "new"
    /\ \E r \in {build(cls, kwargs)} :
           entity' = [pc |-> "built", cls |-> cls, raw |-> Dict(kwargs),
                      exc |-> r.exc, val |-> r.val]
    /\ UNCHANGED <<credentialVars, connectorVars>>

\* the entity constructed from fields the way its class takes them, what
\* to_requests makes of it, and the entity constructed from that again
round_trip(cls, kwargs) ==
    LET built == IF cls \in JsonInputEntityClasses THEN new_entity_kw(cls, kwargs)
                 ELSE new_entity(cls, Dict(kwargs))
        encoded == to_requests(built.val)
        decoded == new_entity(cls, encoded.val.d["data"])
    IN  IF built.exc # "none" THEN built
        ELSE IF encoded.exc # "none" THEN encoded
        ELSE decoded

\* entity = cls(cls(**kwargs).to_requests()['data'])
RoundTrip(cls, kwargs) ==
    /\ entity.pc = "new"
    /\ \E r \in {round_trip(cls, kwargs)} :
           entity' = [pc |-> "round", cls |-> cls, raw |-> Dict(kwargs),
                      exc |-> r.exc, val |-> r.val]
    /\ UNCHANGED <<credentialVars, connectorVars>>

\* FormOption(content_type='text/plain', headers=None)
FormOption == [content_type |-> "text/plain", headers |-> EmptyDict]

\* names of form fields and of keyword arguments, as the pieces between and
\* including their underscores and hyphens
TenantId == <<"tenant", "-", "id">>
DeploymentName == <<"deployment", "-", "name">>

\* NewDeploymentRequest.options_by_name
options_by_name ==
    [name \in {DeploymentName, <<"enable", "-", "duplicate", "-", "filtering">>,
               <<"deploy", "-", "changed", "-", "only">>,
               <<"deployment", "-", "source">>, TenantId} |-> FormOption]

\* a name left as it is
keep_name(name) == name

\* name.replace('_', '-')
replace_underscores(name) ==
    [i \in 1..Len(name) |-> IF name[i] = "_" THEN "-" ELSE name[i]]

\* a part of the form: (filename, content, content type, headers)
Part(data, content_type, part_headers) ==
    [filename |-> None, data |-> data, content_type |-> content_type,
     headers |-> part_headers]

RECURSIVE add_options(_, _, _, _)
\* the loop over kwargs.iteritems(), which yields the names in order, from
\* its i-th name on
add_options(parts, kwargs, order, i) ==
    IF i > Len(order) THEN Ok(parts)
    ELSE LET name == replace_underscores(order[i])
         IN  IF name \notin DOMAIN options_by_name THEN Raise("ValueError")
             ELSE add_options(SetItem(parts, name,
                                      Part(kwargs[order[i]], options_by_name[name].content_type,
                                           options_by_name[name].headers)),
                              kwargs, order, i + 1)

\* MultipartFormInput.__init__(files, **kwargs): self.files
MultipartFormInput_init(files, kwargs, order) ==
    add_options([name \in DOMAIN files |->
                    Part(files[name], "application/octet-stream", EmptyDict)],
                kwargs, order, 1)

\* the files a caller passes: a model file, and a file under the name of an
\* option
FormFiles ==
    LET all == [x \in {<<"a", ".", "bpmn">>, TenantId} |->
                   IF x = TenantId THEN Str(<<"t">>) ELSE Str(<<"m">>)]
    IN  {[x \in names |-> all[x]] : names \in SUBSET DOMAIN all}

\* the keyword options a caller passes
FormKwargs ==
    LET all == [x \in {<<"tenant", "_", "id">>, TenantId,
                       <<"deployment", "_", "name">>, <<"bogus", "_", "option">>} |->
                   Str(<<x[1], x[2]>>)]
    IN  {[x \in names |-> all[x]] : names \in SUBSET DOMAIN all}

\* the orders in which a dict may yield its keys
Orders(keys) ==
    {o \in [1..Cardinality(keys) -> keys] :
        \A i, j \in 1..Cardinality(keys) : o[i] = o[j] => i = j}

\* entity = NewDeploymentRequest(files, **kwargs)
NewMultipartFormInput(files, kwargs, order) ==
    /\ entity.pc = "new"
    /\ \E r \in {MultipartFormInput_init(files, kwargs, order)} :
           entity' = [pc |-> "form", cls |-> "NewDeploymentRequest",
                      raw |-> [t |-> "form", files |-> files, kwargs |-> kwargs],
                      exc |-> r.exc, val |-> r.val]
    /\ UNCHANGED <<credentialVars, connectorVars>>

InitEntity ==
    /\ entity = NoEntity
    /\ system = [env |-> [n \in Names |-> None], files |-> [n \in Names |-> Absent]]
    /\ resolver = NoResolver
    /\ NoConnector

NextEntity ==
    \/ \E cls \in EntityClasses, raw \in RawInputs : NewEntity(cls, raw)
    \/ \E cls \in EntityClasses \cup InputEntityClasses, kwargs \in BuildInputs :
           BuildEntity(cls, kwargs)
    \/ \E cls \in EntityClasses \cup InputEntityClasses, kwargs \in BuildInputs :
           RoundTrip(cls, kwargs)
    \/ \E files \in FormFiles, kwargs \in FormKwargs :
           \E order \in Orders(DOMAIN kwargs) :
               NewMultipartFormInput(files, kwargs, order)

SpecEntity == InitEntity /\ [][NextEntity]_vars

-----------------------------------------------------------------------------
(*                     Endpoint (connector.py 144-300)                     *)

\* the endpoint instances the caller holds
MaxEndpoints == 4
EndpointIds == 1..MaxEndpoints

\* The caller's endpoint objects, by identity: 1 and 2 are two instances of
\* equal value, GetDeployment('d1'); 3 is GetDeploymentCount(engine_name='e1');
\* 4 is DeleteDeployment('d1', engine_name='e1'); further ones repeat these.
\* one more instance, beyond those: CheckAuthorization()
CheckAuthorizationId == MaxEndpoints + 1

ClassOf(e) ==
    IF e = CheckAuthorizationId THEN "CheckAuthorization"
    ELSE CASE e % 4 = 1 -> "GetDeployment"
           [] e % 4 = 2 -> "GetDeployment"
           [] e % 4 = 3 -> "GetDeploymentCount"
           [] e % 4 = 0 -> "DeleteDeployment"
engine_name(e) ==
    IF e = CheckAuthorizationId \/ e % 4 \in {1, 2} THEN None ELSE Uni("e1")
deployment_id(e) == "d1"

method(e) ==
    CASE ClassOf(e) \in {"GetDeployment", "GetDeploymentCount", "CheckAuthorization"} ->
             "GET"
      [] ClassOf(e) = "DeleteDeployment" -> "DELETE"

uri(e) ==
    CASE ClassOf(e) = "GetDeployment" -> "/deployment/" \o deployment_id(e)
      [] ClassOf(e) = "GetDeploymentCount" -> "/deployment/count"
      [] ClassOf(e) = "DeleteDeployment" -> "/deployment/" \o deployment_id(e)
      [] ClassOf(e) = "CheckAuthorization" -> "/authorization/check"

engine_uri(e) ==
    IF engine_name(e) # None THEN "/engine/" \o engine_name(e).u \o uri(e)
    ELSE uri(e)

\* Endpoint.headers, overridden by no endpoint class
headers(e) == None

\* Endpoint.timeout, in seconds
timeout(e) == 10

parameters_type(e) ==
    CASE ClassOf(e) = "GetDeployment" -> "None"
      [] ClassOf(e) = "GetDeploymentCount" -> "DeploymentListParameters"
      [] ClassOf(e) = "DeleteDeployment" -> "DeploymentDeletionRequest"
      [] ClassOf(e) = "CheckAuthorization" -> "AuthorizationCheckParameters"

\* an endpoint class that overrides nothing
never_required(e) == FALSE

parameters_required(e) == ClassOf(e) = "CheckAuthorization"

return_type(e) ==
    CASE ClassOf(e) = "GetDeployment" -> "Deployment"
      [] ClassOf(e) = "GetDeploymentCount" -> "Count"
      [] ClassOf(e) = "DeleteDeployment" -> "None"
      [] ClassOf(e) = "CheckAuthorization" -> "AuthorizationCheckResult"

\* JsonInputEntity.__init__(**kwargs)
JsonInputEntity_init(cls, kwargs) == Entity_init(cls, Dict(kwargs))

\* a with_parameters that attaches the arguments whatever the endpoint
with_parameters_unguarded(e, kwargs) ==
    Ok(EntityObject(parameters_type(e), Dict(kwargs), Dict(kwargs)))

\* Endpoint.with_parameters(**kwargs): the new value of self.parameters
with_parameters(e, kwargs) ==
    IF parameters_type(e) = "None" THEN Raise("ValueError")
    ELSE JsonInputEntity_init(parameters_type(e), kwargs)

\* Endpoint.params, for an endpoint whose parameters attribute is attached
params(e, attached) ==
    IF attached = None
    THEN IF parameters_required(e) THEN Raise("ValueError") ELSE Ok(None)
    ELSE LET d == attached.decoded.d
         IN  Ok(Dict([key \in DOMAIN d |->
                          IF d[key].t = "enum" THEN d[key].value ELSE d[key]]))

-----------------------------------------------------------------------------
(*                      Camunda (connector.py 302-363)                     *)

BaseUrl == "http://camunda:8080"

HTTPBasicAuth(u, p) == [t |-> "HTTPBasicAuth", username |-> u, password |-> p]

ContentTypeJson == Dict([x \in {"Content-Type"} |-> Txt(<<"application/json">>)])

\* Camunda.__init__(base_url, access_credentials); access_credentials is None or
\* a built resolver
Camunda_init(base_url, access_credentials) ==
    LET u == username(access_credentials.credentials)
        pw == password(access_credentials.credentials)
        fields(auth) == [t |-> "Camunda", base_url |-> base_url \o "/engine-rest",
                         headers |-> ContentTypeJson, auth |-> auth]
    IN  IF access_credentials = None THEN Ok(fields(None))
        ELSE IF u.exc # "none" THEN u
        ELSE IF pw.exc # "none" THEN pw
        ELSE Ok(fields(HTTPBasicAuth(u.val, pw.val)))

\* the anti-hijacking sequence )]}' and a newline
Xssi == <<P(")"), P("]"), P("}"), P("'"), P("\n")>>

\* the first index at which old occurs in text from i on, 0 when it does not
RECURSIVE find_text(_, _, _)
find_text(text, old, i) ==
    IF i + Len(old) - 1 > Len(text) THEN 0
    ELSE IF SubSeq(text, i, i + Len(old) - 1) = old THEN i
    ELSE find_text(text, old, i + 1)

\* text.replace(old, '', 1)
replace1(text, old) ==
    LET i == find_text(text, old, 1)
    IN  IF i = 0 THEN text
        ELSE SubSeq(text, 1, i - 1) \o SubSeq(text, i + Len(old), Len(text))

\* dict[key] on the value response.json() gave
getitem(val, key) ==
    IF val.t # "dict" THEN Raise("TypeError")
    ELSE IF key \notin DOMAIN val.d THEN Raise("KeyError")
    ELSE Ok(val.d[key])

\* raise cls(response), CamundaException.__init__ included
CamundaException(cls, response) ==
    LET response_dict == json_loads(Str(response.text))
        message == getitem(response_dict.val, "message")
        api_type == getitem(response_dict.val, "type")
    IN  IF response_dict.exc # "none" THEN Raise(response_dict.exc)
        ELSE IF message.exc # "none" THEN Raise(message.exc)
        ELSE IF api_type.exc # "none" THEN Raise(api_type.exc)
        ELSE [exc |-> cls,
              val |-> [t |-> "exception", message |-> message.val,
                       api_type |-> api_type.val]]

\* a cache that takes endpoints of equal value for the same key
cache_key_by_value(e) ==
    CHOOSE f \in EndpointIds :
        /\ ClassOf(f) = ClassOf(e) /\ engine_name(f) = engine_name(e)
        /\ uri(f) = uri(e)
        /\ \A g \in EndpointIds :
               (ClassOf(g) = ClassOf(e) /\ engine_name(g) = engine_name(e)
                /\ uri(g) = uri(e)) => f <= g

\* the key under which the cache holds an endpoint: Endpoint defines neither
\* __eq__ nor __hash__, so it is the identity of the instance
cache_key(e) == e

\* the URL communicate_with requests
request_url(connector, e) == connector.base_url \o uri(e)

\* the text communicate_with hands to the return type
cleaned_response(text) == replace1(text, Xssi)

\* a connector that never answers from its cache
cache_never_hit(cch, e, useCache) == FALSE

\* a connector that answers from its cache whatever the cache argument
cache_hit_always(cch, e, useCache) == cache_key(e) \in DOMAIN cch

\* whether communicate_with answers from the cache
cache_hit(cch, e, useCache) == useCache /\ cache_key(e) \in DOMAIN cch

\* the cache after communicate_with decoded response for e
cache_store(cch, e, useCache, response) ==
    IF useCache THEN SetItem(cch, cache_key(e), response) ELSE cch

\* a decoded response, with the identity of the object
Object(oid, ent) == [t |-> "object", oid |-> oid, entity |-> ent]

Outcome(http, request, response, exc, error, val, store, text) ==
    [http |-> http, request |-> request, response |-> response, exc |-> exc,
     error |-> error, val |-> val, store |-> store, decoder_input |-> text]

\* Camunda.communicate_with(endpoint, payload, cache) on a connector whose
\* cache is cch, for an endpoint whose parameters are attached; transport is
\* what requests.request does with the request, oid the identity of the
\* object a successful decode allocates
communicate_with(connector, cch, e, attached, payload, useCache, transport, oid) ==
    LET query == params(e, attached)
        request == [method |-> method(e), url |-> request_url(connector, e),
                    auth |-> connector.auth, headers |-> headers(e),
                    timeout |-> timeout(e), params |-> query.val, data |-> payload]
        bad_request == CamundaException("BadRequest", transport)
        not_found == CamundaException("ResourceNotFound", transport)
        cleaned == cleaned_response(transport.text)
        response == Entity_init(return_type(e), Str(cleaned))
    IN  IF cache_hit(cch, e, useCache)
        THEN Outcome(0, None, None, "none", None, cch[cache_key(e)], FALSE, None)
        ELSE IF query.exc # "none"
        THEN Outcome(0, None, None, query.exc, None, None, FALSE, None)
        ELSE IF transport.t = "error"
        THEN Outcome(1, request, transport, transport.exc, None, None, FALSE, None)
        ELSE IF transport.status_code = 400
        THEN Outcome(1, request, transport, bad_request.exc, bad_request.val, None,
                     FALSE, None)
        ELSE IF transport.status_code = 404
        THEN Outcome(1, request, transport, not_found.exc, not_found.val, None,
                     FALSE, None)
        ELSE IF return_type(e) = "None"
        THEN Outcome(1, request, transport, "none", None, None, FALSE, None)
        ELSE IF response.exc # "none"
        THEN Outcome(1, request, transport, response.exc, None, None, FALSE,
                     Str(cleaned))
        ELSE Outcome(1, request, transport, "none", None, Object(oid, response.val),
                     useCache, Str(cleaned))

-----------------------------------------------------------------------------
(*                 The connector and its caller, as a system               *)

\* the communicate_with and with_parameters calls of one run
MaxCalls == 3

StatusCodes == {200, 400, 404, 500}

\* the statuses communicate_with's caller takes for success
SuccessCodes == {200}

DeploymentText == dumps(GoodDeployment)
CountText == dumps(GoodCount)
ErrorText == dumps(Dict([type |-> Uni("BadUserRequestException"), message |-> Uni("bad")]))
ErrorTextNoType == dumps(Dict([message |-> Uni("bad")]))

\* the response bodies of the remote: a deployment behind the anti-hijacking
\* sequence, a count, a count with the sequence before its last token, a count
\* behind the sequence twice, and two error bodies
Bodies ==
    {Xssi \o DeploymentText, CountText,
     SubSeq(CountText, 1, Len(CountText) - 1) \o Xssi \o <<P("}")>>,
     Xssi \o Xssi \o CountText, ErrorText, ErrorTextNoType}

\* the bodies the remote sends with a status: any of them with a success, an
\* error body with 400 and 404, an error body or an entity with another status
BodiesOf(st) ==
    IF st \in SuccessCodes THEN Bodies
    ELSE IF st \in {400, 404} THEN {ErrorText, ErrorTextNoType}
    ELSE {ErrorText, CountText}

\* what requests.request does: a response, or an exception of the transport
Transports ==
    UNION {{[t |-> "response", status_code |-> st, text |-> body] :
               body \in BodiesOf(st)} : st \in StatusCodes}
    \cup {[t |-> "error", exc |-> "Timeout"]}

\* no request is sent
NoTransport == [t |-> "unused"]

Payloads == {None}

\* camunda.communicate_with(e, payload, cache=useCache)
CommunicateWith(e, payload, useCache, transport) ==
    /\ camunda.t = "Camunda"
    /\ ncalls < MaxCalls
    /\ (transport = NoTransport) <=>
           (cache_hit(cache, e, useCache) \/ params(e, parameters[e]).exc # "none")
    /\ \E r \in {communicate_with(camunda, cache, e, parameters[e], payload, useCache,
                                  transport, ncalls + 1)} :
           LET decoded == r.exc = "none" /\ r.val # None
           IN
           /\ cache' = IF r.store THEN cache_store(cache, e, useCache, r.val) ELSE cache
           /\ call' = [op |-> "communicate_with", endpoint |-> e,
                       kwargs |-> NoCall.kwargs, payload |-> payload, cache |-> useCache,
                       http |-> r.http, request |-> r.request, response |-> r.response,
                       exc |-> r.exc, error |-> r.error, val |-> r.val,
                       stored |-> r.store, decoder_input |-> r.decoder_input]
           /\ stats' = IF useCache /\ decoded
                       THEN [stats EXCEPT ![e] =
                                 [ok |-> @.ok + 1, http |-> @.http + r.http,
                                  first |-> IF @.ok = 0 THEN r.val ELSE @.first]]
                       ELSE stats
    /\ ncalls' = ncalls + 1
    /\ UNCHANGED <<camunda, parameters, frame, credentialVars, entityVars>>

\* e.with_parameters(**kwargs)
WithParameters(e, kwargs) ==
    /\ camunda.t = "Camunda"
    /\ ncalls < MaxCalls
    /\ \E r \in {with_parameters(e, kwargs)} :
           /\ parameters' = IF r.exc = "none" THEN [parameters EXCEPT ![e] = r.val]
                            ELSE parameters
           /\ call' = [NoCall EXCEPT !.op = "with_parameters", !.endpoint = e,
                                     !.kwargs = kwargs, !.exc = r.exc]
    /\ ncalls' = ncalls + 1
    /\ UNCHANGED <<camunda, cache, stats, frame, credentialVars, entityVars>>

\* camunda = Camunda(BaseUrl), and the caller's endpoints as constructed
Init ==
    /\ system = [env |-> [n \in Names |-> None], files |-> [n \in Names |-> Absent]]
    /\ resolver = NoResolver
    /\ entity = NoEntity
    /\ camunda = Camunda_init(BaseUrl, None).val
    /\ cache = [key \in {} |-> None]
    /\ parameters = [e \in EndpointIds |-> None]
    /\ call = NoCall
    /\ ncalls = 0
    /\ stats = [e \in EndpointIds |-> [ok |-> 0, http |-> 0, first |-> None]]
    /\ frame = NoFrame

Next ==
    \/ \E e \in EndpointIds, payload \in Payloads, useCache \in BOOLEAN,
          transport \in Transports \cup {NoTransport} :
           CommunicateWith(e, payload, useCache, transport)
    \/ \E e \in EndpointIds, kwargs \in KwargsInputs : WithParameters(e, kwargs)

Spec == Init /\ [][Next]_vars

-----------------------------------------------------------------------------
(*        A connector built from a resolver, and required parameters       *)

\* the endpoints of this caller: GetDeploymentCount(engine_name='e1') and
\* CheckAuthorization()
DispatchIds == {3, CheckAuthorizationId}

\* the hosts of this caller: no source of credentials, or the environment
\* variable holding a username and a password
DispatchSystems ==
    {sys \in Systems :
        /\ \A n \in Names : sys.files[n] = Absent
        /\ sys.env[lower(Key)] = None
        /\ sys.env[upper(Key)] \in {None, Str(<<"u", ":", "u">>)}}

AuthorizationText ==
    dumps(Dict([permissionName |-> Uni("READ"), resourceName |-> Uni("Task"),
                resourceId |-> None, isAuthorized |-> Bool(TRUE)]))

DispatchTransports ==
    {[t |-> "response", status_code |-> 200, text |-> body] :
        body \in {CountText, AuthorizationText}}
    \cup {[t |-> "response", status_code |-> 404, text |-> ErrorText],
          [t |-> "error", exc |-> "Timeout"]}

GoodCheck ==
    [permissionName |-> Txt(<<"READ">>), permissionValue |-> Txt(<<"2">>),
     resourceName |-> Txt(<<"Task">>), resourceType |-> Num(7)]

DispatchKwargs ==
    {[key \in {} |-> None], [maxResults |-> Num(1)], GoodCheck,
     [GoodCheck EXCEPT !.resourceType = Num(8)]}

\* the connector whose construction raised
FailedCamunda(exc) == [t |-> "failed", exc |-> exc]

\* camunda = Camunda(BaseUrl, resolver) or camunda = Camunda(BaseUrl)
NewCamunda(withResolver) ==
    /\ camunda = NoCamunda
    /\ withResolver => resolver.pc = "done" /\ resolver.exc = "none"
    /\ ~withResolver => resolver.pc = "new"
    /\ \E r \in {Camunda_init(BaseUrl, IF withResolver THEN resolver ELSE None)} :
           camunda' = IF r.exc = "none" THEN r.val ELSE FailedCamunda(r.exc)
    /\ UNCHANGED <<cache, parameters, call, ncalls, stats, frame, credentialVars,
                    entityVars>>

\* the resolver the connector is to be built from
NewResolver(user, secret) ==
    /\ camunda = NoCamunda
    /\ NewUsernamePasswordAccessCredentials(user, secret)

InitDispatch ==
    /\ system \in DispatchSystems
    /\ resolver = NoResolver
    /\ entity = NoEntity
    /\ camunda = NoCamunda
    /\ cache = [key \in {} |-> None]
    /\ parameters = [e \in DispatchIds |-> None]
    /\ call = NoCall
    /\ ncalls = 0
    /\ stats = [e \in DispatchIds |-> [ok |-> 0, http |-> 0, first |-> None]]
    /\ frame = NoFrame

NextDispatch ==
    \/ \E u, p \in ExplicitValues : NewResolver(u, p)
    \/ \E withResolver \in BOOLEAN : NewCamunda(withResolver)
    \/ \E e \in DispatchIds, payload \in Payloads, useCache \in BOOLEAN,
          transport \in DispatchTransports \cup {NoTransport} :
           CommunicateWith(e, payload, useCache, transport)
    \/ \E e \in DispatchIds, kwargs \in DispatchKwargs : WithParameters(e, kwargs)

SpecDispatch == InitDispatch /\ [][NextDispatch]_vars

-----------------------------------------------------------------------------
(*             The cache of a connector over all kinds of calls            *)

\* the endpoints of this caller: GetDeploymentCount(engine_name='e1'),
\* DeleteDeployment('d1', engine_name='e1'), which has no return type, and
\* CheckAuthorization(), which requires parameters
CacheIds == {3, 4, CheckAuthorizationId}

\* what requests.request does for this caller: a success with a count, with
\* an authorization check result, with an error body or with a cut body, a
\* 400, a 404, a 500 with a count, a timeout and a refused connection
CacheTransports ==
    {[t |-> "response", status_code |-> 200, text |-> body] :
        body \in {CountText, AuthorizationText, ErrorText,
                  SubSeq(CountText, 1, Len(CountText) - 1)}}
    \cup {[t |-> "response", status_code |-> 400, text |-> ErrorText],
          [t |-> "response", status_code |-> 404, text |-> ErrorText],
          [t |-> "response", status_code |-> 500, text |-> CountText],
          [t |-> "error", exc |-> "Timeout"],
          [t |-> "error", exc |-> "ConnectionError"]}

CacheKwargs == {[maxResults |-> Num(1)], GoodCheck}

InitCache ==
    /\ system = [env |-> [n \in Names |-> None], files |-> [n \in Names |-> Absent]]
    /\ resolver = NoResolver
    /\ entity = NoEntity
    /\ camunda = Camunda_init(BaseUrl, None).val
    /\ cache = [key \in {} |-> None]
    /\ parameters = [e \in CacheIds |-> None]
    /\ call = NoCall
    /\ ncalls = 0
    /\ stats = [e \in CacheIds |-> [ok |-> 0, http |-> 0, first |-> None]]
    /\ frame = NoFrame

NextCache ==
    \/ \E e \in CacheIds, payload \in Payloads, useCache \in BOOLEAN,
          transport \in CacheTransports \cup {NoTransport} :
           CommunicateWith(e, payload, useCache, transport)
    \/ \E e \in CacheIds, kwargs \in CacheKwargs : WithParameters(e, kwargs)

SpecCache == InitCache /\ [][NextCache]_vars

-----------------------------------------------------------------------------
(*                 communicate_with, one statement at a time               *)

\* a connector that sends its request again when the transport timed out
retry_on_timeout(exc) == IF exc = "Timeout" THEN "retry" ELSE "propagate"

\* what communicate_with does with an exception raised in its body: it has no
\* try statement, so every exception leaves the call
handler(exc) == "propagate"

ExchangeTransports ==
    CacheTransports
    \cup {[t |-> "response", status_code |-> 400, text |-> ErrorTextNoType]}

\* the call in progress returns or raises with outcome r, having called
\* requests.request exchanges times
Leave(r, exchanges) ==
    LET e == frame.endpoint
        decoded == r.exc = "none" /\ r.val # None
    IN
    /\ cache' = IF r.store THEN cache_store(cache, e, frame.cache, r.val) ELSE cache
    /\ call' = [op |-> "communicate_with", endpoint |-> e,
                kwargs |-> NoCall.kwargs, payload |-> frame.payload,
                cache |-> frame.cache, http |-> exchanges, request |-> r.request,
                response |-> r.response, exc |-> r.exc, error |-> r.error,
                val |-> r.val, stored |-> r.store,
                decoder_input |-> r.decoder_input]
    /\ stats' = IF frame.cache /\ decoded
                THEN [stats EXCEPT ![e] =
                          [ok |-> @.ok + 1, http |-> @.http + exchanges,
                           first |-> IF @.ok = 0 THEN r.val ELSE @.first]]
                ELSE stats
    /\ ncalls' = ncalls + 1
    /\ frame' = NoFrame

\* the caller calls camunda.communicate_with(e, payload, cache=useCache)
Enter(e, payload, useCache) ==
    /\ camunda.t = "Camunda"
    /\ frame.pc = "idle"
    /\ ncalls < MaxCalls
    /\ frame' = [pc |-> "called", endpoint |-> e, payload |-> payload,
                 cache |-> useCache, exchanges |-> 0, response |-> None]
    /\ UNCHANGED <<camunda, cache, parameters, call, ncalls, stats, credentialVars,
                   entityVars>>

\* lines 343-346: the cached response is returned, or the URL is built
Lookup ==
    /\ frame.pc = "called"
    /\ IF cache_hit(cache, frame.endpoint, frame.cache)
       THEN \E r \in {communicate_with(camunda, cache, frame.endpoint,
                                       parameters[frame.endpoint], frame.payload,
                                       frame.cache, NoTransport, ncalls + 1)} :
                Leave(r, frame.exchanges)
       ELSE /\ frame' = [frame EXCEPT !.pc = "request"]
            /\ UNCHANGED <<cache, call, ncalls, stats>>
    /\ UNCHANGED <<camunda, parameters, credentialVars, entityVars>>

\* lines 347-349: the arguments of requests.request are evaluated, which
\* raises when required parameters are missing, and the request is sent,
\* which the transport answers with a response or an exception
Request(transport) ==
    /\ frame.pc = "request"
    /\ (transport = NoTransport) <=>
           (params(frame.endpoint, parameters[frame.endpoint]).exc # "none")
    /\ \E r \in {communicate_with(camunda, cache, frame.endpoint,
                                  parameters[frame.endpoint], frame.payload,
                                  frame.cache, transport, ncalls + 1)} :
           IF transport = NoTransport
           THEN Leave(r, frame.exchanges)
           ELSE IF transport.t = "error"
           THEN IF handler(transport.exc) = "propagate"
                THEN Leave(r, frame.exchanges + 1)
                ELSE /\ frame' = [frame EXCEPT !.exchanges = @ + 1]
                     /\ UNCHANGED <<cache, call, ncalls, stats>>
           ELSE /\ frame' = [frame EXCEPT !.pc = "response", !.exchanges = @ + 1,
                                          !.response = transport]
                /\ UNCHANGED <<cache, call, ncalls, stats>>
    /\ UNCHANGED <<camunda, parameters, credentialVars, entityVars>>

\* lines 350-363: a 400 and a 404 raise, an endpoint without a return type
\* returns None, the body is cleaned and decoded, and the decoded response is
\* stored and returned
Respond ==
    /\ frame.pc = "response"
    /\ \E r \in {communicate_with(camunda, cache, frame.endpoint,
                                  parameters[frame.endpoint], frame.payload,
                                  frame.cache, frame.response, ncalls + 1)} :
           IF r.exc # "none" /\ handler(r.exc) # "propagate"
           THEN /\ frame' = [frame EXCEPT !.pc = "request", !.response = None]
                /\ UNCHANGED <<cache, call, ncalls, stats>>
           ELSE Leave(r, frame.exchanges)
    /\ UNCHANGED <<camunda, parameters, credentialVars, entityVars>>

\* e.with_parameters(**kwargs), between two calls of the connector
AttachParameters(e, kwargs) ==
    /\ frame.pc = "idle"
    /\ WithParameters(e, kwargs)

InitExchange == InitCache

NextExchange ==
    \/ \E e \in CacheIds, payload \in Payloads, useCache \in BOOLEAN :
           Enter(e, payload, useCache)
    \/ Lookup
    \/ \E transport \in ExchangeTransports \cup {NoTransport} : Request(transport)
    \/ Respond
    \/ \E e \in CacheIds, kwargs \in CacheKwargs : AttachParameters(e, kwargs)

SpecExchange == InitExchange /\ [][NextExchange]_vars

-----------------------------------------------------------------------------
(*                    Properties of credential resolution                  *)

\* what the caller supplied explicitly, as AccessCredentials.__init__ gets it
ExplicitOf(r) ==
    IF r.cls = "UsernamePasswordAccessCredentials"
    THEN IF r.user # None /\ r.password # None
         THEN Str(format_pair(r.user, r.password)) ELSE None
    ELSE r.credentials_arg

\* exactly one of user and password was supplied
PartialPair(r) ==
    r.cls = "UsernamePasswordAccessCredentials" /\ (r.user = None) # (r.password = None)

HasColon(s) == \E i \in 1..Len(s) : s[i] = ":"

\* the credentials a raw text found on the host stands for
UsedAs(cls, raw) ==
    LET trimmed == strip(raw)
        i == CHOOSE j \in 1..Len(trimmed) :
                 trimmed[j] = ":" /\ \A k \in 1..(j - 1) : trimmed[k] # ":"
    IN  IF cls # "UsernamePasswordAccessCredentials" THEN Str(trimmed)
        ELSE IF ~HasColon(trimmed) THEN None
        ELSE UsernamePasswordPair(Str(strip(SubSeq(trimmed, 1, i - 1))),
                                  Str(strip(SubSeq(trimmed, i + 1, Len(trimmed)))))

EnvOfKey == system.env["PYCAMUNDA"]
FileOfKey == system.files["pycamunda"]

\* C9: the explicit value wins over everything; without it the environment
\* variable PYCAMUNDA (trimmed) wins over the file pycamunda; without both the
\* trimmed contents of the file are used; with no source credentials are absent.
C9_Precedence ==
    (resolver.pc = "done" /\ ~PartialPair(resolver)) =>
        LET explicit == ExplicitOf(resolver)
        IN  /\ explicit # None =>
                   IF resolver.cls = "UsernamePasswordAccessCredentials"
                   THEN resolver.credentials \in
                            {explicit, UsernamePasswordPair(resolver.user, resolver.password)}
                   ELSE resolver.credentials = explicit
            /\ (explicit = None /\ EnvOfKey # None) =>
                   resolver.credentials = UsedAs(resolver.cls, EnvOfKey.s)
            /\ (explicit = None /\ EnvOfKey = None /\ FileOfKey.t = "file") =>
                   resolver.credentials = UsedAs(resolver.cls, FileOfKey.v)
            /\ (explicit = None /\ EnvOfKey = None /\ FileOfKey.t = "absent") =>
                   resolver.credentials = None

\* C9 witness: no explicit value, the variable and the file both hold
\* credentials, they differ, and the variable's were taken
C9_Witness ==
    /\ resolver.pc = "done"
    /\ resolver.cls = "UsernamePasswordAccessCredentials"
    /\ ExplicitOf(resolver) = None /\ ~PartialPair(resolver)
    /\ EnvOfKey # None /\ FileOfKey.t = "file"
    /\ UsedAs(resolver.cls, EnvOfKey.s) # None
    /\ UsedAs(resolver.cls, FileOfKey.v) # None
    /\ UsedAs(resolver.cls, EnvOfKey.s) # UsedAs(resolver.cls, FileOfKey.v)
    /\ resolver.credentials = UsedAs(resolver.cls, EnvOfKey.s)

\* the raw value resolution finds cannot be read or cannot be processed
Unusable(cls) ==
    IF EnvOfKey # None THEN UsedAs(cls, EnvOfKey.s) = None
    ELSE \/ FileOfKey.t = "unreadable"
         \/ FileOfKey.t = "file" /\ UsedAs(cls, FileOfKey.v) = None

\* C10: resolution never raises, and credentials are absent whenever the raw
\* value found cannot be read or processed.
C10_NeverRaises ==
    (resolver.pc = "done" /\ ~PartialPair(resolver)) =>
        /\ resolver.exc = "none"
        /\ (ExplicitOf(resolver) = None /\ Unusable(resolver.cls)) =>
               resolver.credentials = None

\* C10 witness: the variable holds a text with no colon, and the
\* username/password resolver was built with absent credentials
C10_Witness ==
    /\ resolver.pc = "done" /\ resolver.exc = "none"
    /\ resolver.cls = "UsernamePasswordAccessCredentials"
    /\ resolver.user = None /\ resolver.password = None
    /\ EnvOfKey # None /\ Len(EnvOfKey.s) > 0 /\ ~HasColon(EnvOfKey.s)
    /\ resolver.credentials = None

\* C11: constructing UsernamePasswordAccessCredentials with exactly one of
\* user and password fails with ValueError and resolves no credentials
C11_PartialPairRejected ==
    (resolver.pc # "new" /\ PartialPair(resolver)) =>
        /\ resolver.exc = "ValueError"
        /\ resolver.credentials = None

\* the credentials a resolver should hold: what the caller supplied, else what
\* the environment variable holds, else what the file holds, else nothing
Resolved(r) ==
    IF r.user # None /\ r.password # None
    THEN UsernamePasswordPair(r.user, r.password)
    ELSE IF EnvOfKey # None THEN UsedAs(r.cls, EnvOfKey.s)
    ELSE IF FileOfKey.t = "file" THEN UsedAs(r.cls, FileOfKey.v)
    ELSE None

\* C12: however the resolver was constructed, the username and password
\* accessors return the components of the resolved credentials, or None when
\* no credentials were loaded, and never fail
C12_AccessorsReturn ==
    (resolver.pc = "read" /\ ~PartialPair(resolver)) =>
        /\ resolver.got_username.exc = "none"
        /\ resolver.got_password.exc = "none"
        /\ IF Resolved(resolver) = None
           THEN resolver.got_username.val = None /\ resolver.got_password.val = None
           ELSE /\ resolver.got_username.val = Resolved(resolver).username
                /\ resolver.got_password.val = Resolved(resolver).password

-----------------------------------------------------------------------------
(*                     Properties of entity construction                   *)

IsText(val) == val.t \in {"str", "unicode"}
IsNumber(val) == val.t \in {"int", "bool", "long", "float"}

\* val is a conforming Deployment mapping
ConformsDeployment(val) ==
    /\ val.t = "dict"
    /\ {"id", "name", "source", "deploymentTime"} \subseteq DOMAIN val.d
    /\ DOMAIN val.d \subseteq
           {"id", "name", "source", "deploymentTime", "tenantId", "links"}
    /\ \A key \in DOMAIN val.d \cap {"id", "name", "source", "tenantId"} :
           IsText(val.d[key]) \/ val.d[key] = None
    /\ val.d["deploymentTime"].t = "unicode" /\ val.d["deploymentTime"].u \in DateTexts
    /\ "links" \in DOMAIN val.d =>
           /\ val.d["links"].t = "list"
           /\ \A i \in 1..Len(val.d["links"].l) : IsText(val.d["links"].l[i])

\* val is a conforming instance of the schema of cls
Conforms(cls, val) ==
    CASE cls = "Count" ->
             val.t = "dict" /\ DOMAIN val.d = {"count"} /\ IsNumber(val.d["count"])
      [] cls = "Deployment" -> ConformsDeployment(val)
      [] cls = "DeploymentList" ->
             val.t = "list" /\ \A i \in 1..Len(val.l) : ConformsDeployment(val.l[i])

\* the structured value the schema of the entity is applied to
StructuredOf(raw) == IF raw.t = "dict" THEN Ok(raw) ELSE json_loads(raw)

\* C7: an outer entity whose schema coerces nested values into Deployment, one
\* of which is a mapping that fails the Deployment schema, fails with
\* InvalidEntity.
C7_NestedFailureIsInvalid ==
    LET outer == StructuredOf(entity.raw)
    IN  (/\ entity.pc = "done" /\ entity.cls = "DeploymentList"
         /\ outer.exc = "none" /\ outer.val.t = "list"
         /\ \A i \in 1..Len(outer.val.l) : outer.val.l[i].t = "dict"
         /\ \E i \in 1..Len(outer.val.l) : ~ConformsDeployment(outer.val.l[i]))
        => entity.exc = "InvalidEntity"

\* C8: text the decoder cannot parse fails with MalformedEntity; a value that
\* decodes, or is a mapping, and violates the schema fails with InvalidEntity;
\* a failure produces no instance.
C8_FailureByStage ==
    LET structured == StructuredOf(entity.raw)
    IN  entity.pc = "done" =>
            /\ (entity.raw.t = "str" /\ structured.exc # "none") =>
                   entity.exc = "MalformedEntity"
            /\ (structured.exc = "none" /\ ~Conforms(entity.cls, structured.val)) =>
                   entity.exc = "InvalidEntity"
            /\ entity.exc # "none" => entity.val = None


\* val is a conforming mapping of query parameters of a deployment list
ConformsListParameters(val) ==
    /\ val.t = "dict"
    /\ \A key \in DOMAIN val.d :
           CASE key \in {"id", "name", "nameLike", "source", "tenantIdIn"} ->
                    IsText(val.d[key])
             [] key \in {"withoutSource", "withoutTenantId",
                         "includeDeploymentsWithoutTenantId"} ->
                    val.d[key] \in {Bool(TRUE), Num(1)}
             [] key \in {"after", "before"} ->
                    val.d[key].t = "unicode" /\ val.d[key].u \in DateTexts
             [] key = "sortBy" -> val.d[key] \in {Txt(<<"i", "d">>), Txt(<<"n", "a", "m", "e">>)}
             [] key = "sortOrder" -> val.d[key] \in {Asc, Desc}
             [] key \in {"firstResult", "maxResults"} -> IsNumber(val.d[key])
             [] OTHER -> FALSE

\* val is a conforming instance of the schema of an entity class
ConformsAny(cls, val) ==
    CASE cls \in EntityClasses -> Conforms(cls, val)
      [] cls = "DeploymentListParameters" -> ConformsListParameters(val)
      [] cls = "DeploymentDeletionRequest" ->
             /\ val.t = "dict"
             /\ DOMAIN val.d \subseteq {"cascade", "skipCustomListeners"}
             /\ \A key \in DOMAIN val.d : val.d[key].t = "bool"

\* C17: for every entity class, the outbound ones included, build with fields
\* that conform to the schema returns an instance whose decoded fields are the
\* validated fields, and with fields that violate it fails with InvalidEntity
C17_BuildValidates ==
    entity.pc = "built" =>
        IF ConformsAny(entity.cls, entity.raw)
        THEN /\ entity.exc = "none"
             /\ entity.val.decoded = Validate(schema(entity.cls), entity.raw).val
        ELSE entity.exc = "InvalidEntity" /\ entity.val = None

\* C18: for every field mapping that conforms to the schema of an entity
\* class, building the entity, encoding it and decoding the result through
\* the same class gives an entity with the same field values
C18_RoundTrip ==
    (entity.pc = "round" /\ ConformsAny(entity.cls, entity.raw)) =>
        /\ entity.exc = "none"
        /\ entity.val.decoded = Validate(schema(entity.cls), entity.raw).val

\* a keyword name with every underscore turned into a hyphen
Hyphenated(name) == [i \in DOMAIN name |-> IF name[i] = "_" THEN "-" ELSE name[i]]

\* the form field names the keyword options of the last form stand for
OptionNames == {Hyphenated(k) : k \in DOMAIN entity.raw.kwargs}

\* the part a file becomes, and the part an option value becomes
FilePart(data) == Part(data, "application/octet-stream", EmptyDict)
OptionPart(name, data) ==
    Part(data, options_by_name[name].content_type, options_by_name[name].headers)

\* C20: MultipartFormInput construction turns each file into a part with no
\* filename, its content and application/octet-stream, and each keyword option,
\* underscores replaced by hyphens, into a part with the value and the
\* option's content type and headers; an unrecognized name fails with
\* ValueError and no form input is produced
C20_EveryFileAndOption ==
    entity.pc = "form" =>
        IF OptionNames \subseteq DOMAIN options_by_name
        THEN /\ entity.exc = "none"
             /\ \A f \in DOMAIN entity.raw.files :
                    entity.val[f] = FilePart(entity.raw.files[f])
             /\ \A k \in DOMAIN entity.raw.kwargs :
                    entity.val[Hyphenated(k)] =
                        OptionPart(Hyphenated(k), entity.raw.kwargs[k])
        ELSE entity.exc = "ValueError" /\ entity.val = None

\* C20, as the code has it: the parts are those of the files and of the options; a file
\* whose name is not that of a supplied option becomes a part with no
\* filename, its content and application/octet-stream; each supplied option
\* name has a part with the option's content type and headers and the value
\* of a keyword that stands for it; an unrecognized name fails with ValueError
\* and no form input is produced
C20_FilesUnlessOptions ==
    entity.pc = "form" =>
        IF OptionNames \subseteq DOMAIN options_by_name
        THEN /\ entity.exc = "none"
             /\ DOMAIN entity.val = DOMAIN entity.raw.files \cup OptionNames
             /\ \A f \in DOMAIN entity.raw.files \ OptionNames :
                    entity.val[f] = FilePart(entity.raw.files[f])
             /\ \A h \in OptionNames :
                    \E k \in DOMAIN entity.raw.kwargs :
                        /\ Hyphenated(k) = h
                        /\ entity.val[h] = OptionPart(h, entity.raw.kwargs[k])
        ELSE entity.exc = "ValueError" /\ entity.val = None

\* C20: a form was built from the file a.bpmn and the option deployment_name
C20_Witness ==
    /\ entity.pc = "form" /\ entity.exc = "none"
    /\ <<"a", ".", "bpmn">> \in DOMAIN entity.raw.files
    /\ <<"deployment", "_", "name">> \in DOMAIN entity.raw.kwargs
    /\ entity.val[<<"a", ".", "bpmn">>] = FilePart(Str(<<"m">>))
    /\ entity.val[DeploymentName].content_type = "text/plain"

-----------------------------------------------------------------------------
(*                        Properties of the connector                      *)

\* the caller's last call was communicate_with(e, cache=True)
DispatchedCached(e) ==
    call.op = "communicate_with" /\ call.endpoint = e /\ call.cache

\* the caller's last call was a cache=True dispatch of e that returned a
\* decoded response
ReturnedCached(e) ==
    /\ DispatchedCached(e)
    /\ call.exc = "none" /\ call.val # None

\* C1: once a cache=True dispatch of endpoint instance e has returned a decoded
\* response, every later cache=True dispatch of e returns that identical
\* object without an HTTP request, whatever was called in between; over all
\* the cache=True dispatches of e that returned, the transport ran exactly once
C1_CachedObjectReturned ==
    \A e \in EndpointIds :
        stats[e].ok >= 1 =>
            /\ stats[e].http = 1
            /\ DispatchedCached(e) =>
                   /\ call.exc = "none"
                   /\ call.val = stats[e].first
                   /\ stats[e].ok >= 2 => call.http = 0

\* C1: endpoint 3 was dispatched with cache=True, given parameters, and
\* dispatched with cache=True again
C1_Witness ==
    /\ ncalls = 3 /\ stats[3].ok = 2 /\ stats[3].first.oid = 1
    /\ parameters[3] # None
    /\ DispatchedCached(3) /\ call.http = 0
    /\ call.val = stats[3].first

\* C2: the cache is keyed by the identity of the endpoint instance: a
\* cache=True dispatch of e2 never returns the object another instance e1 got,
\* however equal the two are, and the first cache=True dispatch of e2 that
\* returns has performed an HTTP request of its own
C2_KeyedByIdentity ==
    \A e2 \in EndpointIds :
        ReturnedCached(e2) =>
            /\ \A e1 \in EndpointIds \ {e2} :
                   stats[e1].ok >= 1 => call.val # stats[e1].first
            /\ stats[e2].ok = 1 => call.http = 1

\* C2: endpoints 1 and 2, equal in class, URI, engine name and parameters,
\* were both dispatched with cache=True and got equal responses
C2_Witness ==
    /\ ClassOf(1) = ClassOf(2) /\ uri(1) = uri(2) /\ engine_name(1) = engine_name(2)
    /\ parameters[1] = parameters[2]
    /\ stats[1].ok >= 1 /\ ReturnedCached(2) /\ stats[2].ok = 1
    /\ call.val.entity = stats[1].first.entity

\* the caller's last call was a communicate_with that got a response
Responded == call.http = 1 /\ call.response.t = "response"

\* C3: a response whose status is neither a success nor 400 nor 404 makes
\* communicate_with fail: it returns neither None nor an entity and stores
\* nothing in the cache
C3_UnclassifiedStatusFails ==
    (Responded /\ call.response.status_code \notin SuccessCodes \cup {400, 404}) =>
        /\ call.exc # "none"
        /\ ~call.stored
        /\ call.cache => call.endpoint \notin DOMAIN cache

\* the value of a field of the JSON object a body holds, None when there is
\* no such object or field
BodyField(text, key) ==
    LET doc == json_loads(Str(text))
    IN  IF doc.exc = "none" /\ doc.val.t = "dict" /\ key \in DOMAIN doc.val.d
        THEN doc.val.d[key] ELSE None

\* the failure communicate_with raises for a status
ApiException(status) ==
    CASE status = 400 -> "BadRequest"
      [] status = 404 -> "ResourceNotFound"

\* C4: every response with status 400 fails with BadRequest and every response
\* with status 404 with ResourceNotFound, carrying the message and the type of
\* the body, and no entity is returned
C4_ClassifiedFailures ==
    (Responded /\ call.response.status_code \in {400, 404}) =>
        /\ call.exc = ApiException(call.response.status_code)
        /\ call.error # None
        /\ call.error.message = BodyField(call.response.text, "message")
        /\ call.error.api_type = BodyField(call.response.text, "type")
        /\ call.val = None

\* C5: the URL requested is base_url + '/engine-rest' + endpoint.engine_uri
C5_UrlHasEngine ==
    call.http = 1 =>
        call.request.url = BaseUrl \o "/engine-rest" \o engine_uri(call.endpoint)

\* whether text begins with prefix
startswith(text, prefix) ==
    Len(text) >= Len(prefix) /\ SubSeq(text, 1, Len(prefix)) = prefix

\* C6: on a successful response for an endpoint with a return type, the
\* decoder gets the body without the anti-hijacking sequence when the body
\* begins with it (removed once), and the body unchanged when it does not
C6_PrefixOnly ==
    (Responded /\ call.response.status_code \in SuccessCodes
     /\ return_type(call.endpoint) # "None") =>
        call.decoder_input =
            Str(IF startswith(call.response.text, Xssi)
                THEN SubSeq(call.response.text, Len(Xssi) + 1, Len(call.response.text))
                ELSE call.response.text)

\* the step is a communicate_with call
Dispatch == call'.op = "communicate_with" /\ ncalls' = ncalls + 1

\* C13: communicate_with on an endpoint that requires parameters and has none
\* attached fails with ValueError before any HTTP request and leaves the cache
\* unchanged; on an endpoint that does not require them and has none, the
\* request is sent with no query parameters
C13_RequiredParameters ==
    [][(Dispatch /\ parameters[call'.endpoint] = None) =>
           IF ClassOf(call'.endpoint) = "CheckAuthorization"
           THEN /\ call'.exc = "ValueError" /\ call'.http = 0
                /\ call'.val = None /\ cache' = cache
           ELSE \/ call'.http = 1 /\ call'.request.params = None
                \/ call'.cache /\ call'.endpoint \in DOMAIN cache]_vars

\* C13: with a response cached for another endpoint, CheckAuthorization() was
\* dispatched without parameters
C13_Witness ==
    /\ call.op = "communicate_with" /\ call.endpoint = CheckAuthorizationId
    /\ parameters[CheckAuthorizationId] = None
    /\ call.exc = "ValueError" /\ call.http = 0
    /\ DOMAIN cache = {3}

\* C14: with_parameters on an endpoint whose parameters_type is None fails
\* with ValueError whatever the arguments, and the endpoint's parameters stay
\* absent
C14_NoParametersType ==
    /\ (call.op = "with_parameters" /\ parameters_type(call.endpoint) = "None") =>
           call.exc = "ValueError"
    /\ \A e \in DOMAIN parameters :
           parameters_type(e) = "None" => parameters[e] = None

\* C14: with_parameters(maxResults=1) was called on a GetDeployment
C14_Witness ==
    /\ call.op = "with_parameters" /\ ClassOf(call.endpoint) = "GetDeployment"
    /\ call.kwargs = [maxResults |-> Num(1)]
    /\ call.exc = "ValueError" /\ parameters[call.endpoint] = None

\* C15: every HTTP request of communicate_with carries the header
\* Content-Type: application/json unless the endpoint overrides its headers,
\* which none of the endpoints here does
C15_ContentTypeSent ==
    call.http = 1 => call.request.headers = ContentTypeJson

\* C16: a connector built with no resolver, or with a resolver whose
\* credentials are absent, sends every request without authentication; one
\* built with a resolver that has credentials sends their username and
\* password on every request
C16_AuthOnlyWhenResolved ==
    (camunda.t = "Camunda" /\ call.http = 1) =>
        IF resolver.pc = "new" \/ Resolved(resolver) = None
        THEN call.request.auth = None
        ELSE call.request.auth = HTTPBasicAuth(Resolved(resolver).username,
                                               Resolved(resolver).password)

\* C19: a communicate_with call with cache=False performs an HTTP request even
\* when the endpoint has a cached response, returns the freshly decoded
\* response and not the cached one, and leaves the cache as it was
C19_UncachedDispatch ==
    [][(Dispatch /\ ~call'.cache) =>
           /\ call'.http = 1
           /\ cache' = cache
           /\ call'.val # None =>
                  /\ call'.val.oid = ncalls'
                  /\ \A key \in DOMAIN cache : cache[key] # call'.val]_vars

\* C19: endpoint 3 has a cached response and was dispatched with cache=False,
\* which got another object
C19_Witness ==
    /\ call.op = "communicate_with" /\ call.endpoint = 3 /\ ~call.cache
    /\ 3 \in DOMAIN cache /\ call.http = 1
    /\ call.val # None /\ call.val # cache[3]
    /\ call.val.entity = cache[3].entity

\* C21: the cache changes only in a cache=True communicate_with call on an
\* endpoint with a return type that returns, and then only by gaining the
\* entry of that endpoint instance, which holds the object returned; a call
\* that fails, a cache=False call and a call on an endpoint without a return
\* type leave the cache as it was, and no entry is ever replaced or removed
C21_CacheOnlyGrows ==
    [][/\ \A key \in DOMAIN cache : key \in DOMAIN cache' /\ cache'[key] = cache[key]
       /\ cache' # cache =>
              /\ Dispatch /\ call'.cache /\ call'.exc = "none"
              /\ return_type(call'.endpoint) # "None"
              /\ DOMAIN cache' = DOMAIN cache \cup {call'.endpoint}
              /\ cache'[call'.endpoint] = call'.val
       /\ (Dispatch /\ (call'.exc # "none" \/ ~call'.cache
                        \/ return_type(call'.endpoint) = "None")) =>
              cache' = cache]_vars

\* C21: with the response of endpoint 3 cached, a cache=True dispatch of
\* CheckAuthorization with its parameters got a body that is no authorization
\* check result, and the cache holds the entry of endpoint 3 alone
C21_Witness ==
    /\ call.op = "communicate_with" /\ call.endpoint = CheckAuthorizationId
    /\ call.cache /\ call.http = 1
    /\ call.exc = "InvalidEntity"
    /\ DOMAIN cache = {3} /\ cache[3].oid = 1

\* the step ends a communicate_with call that was in progress
Left == frame.pc # "idle" /\ frame'.pc = "idle" /\ Dispatch

\* the exceptions that reading the body of a 400 or a 404 raises
BodyErrors == {"KeyError", "ValueError", "TypeError"}

\* C22: a communicate_with call calls requests.request at most once: not at
\* all when the response is cached or required parameters are missing, and
\* once otherwise; a call in progress goes on only from sending its first
\* request to holding the response, and ends in the step after; a call whose
\* request met a timeout or another transport error raises that error, one
\* that got a 400 or a 404 raises, and one that raises MalformedEntity or
\* InvalidEntity has sent its one request, returns nothing and stores nothing
C22_OneExchange ==
    [][/\ frame'.exchanges <= 1
       /\ (frame.pc \in {"request", "response"} /\ frame'.pc # "idle") =>
              /\ frame.pc = "request" /\ frame'.pc = "response"
              /\ frame.exchanges = 0 /\ frame'.exchanges = 1
              /\ frame'.response.t = "response"
       /\ Left =>
              /\ call'.http \in {0, 1}
              /\ call'.http = 0 <=>
                     \/ call'.cache /\ call'.endpoint \in DOMAIN cache
                     \/ /\ ClassOf(call'.endpoint) = "CheckAuthorization"
                        /\ parameters[call'.endpoint] = None
              /\ call'.http = 1 =>
                     /\ call'.response.t = "error" =>
                            /\ call'.exc = call'.response.exc
                            /\ call'.val = None /\ cache' = cache
                     /\ (call'.response.t = "response"
                         /\ call'.response.status_code \in {400, 404}) =>
                            /\ call'.exc \in {ApiException(call'.response.status_code)}
                                                 \cup BodyErrors
                            /\ call'.val = None /\ cache' = cache
              /\ call'.exc \in {"MalformedEntity", "InvalidEntity"} =>
                     /\ call'.http = 1 /\ call'.response = frame.response
                     /\ call'.val = None /\ cache' = cache]_vars

\* C22: the second call of the caller, a cache=True dispatch of endpoint 3 with
\* no response cached, sent one request, which timed out, and ended with
\* the timeout
C22_Witness ==
    /\ frame = NoFrame /\ ncalls = 2
    /\ call.op = "communicate_with" /\ call.endpoint = 3 /\ call.cache
    /\ call.http = 1 /\ call.response = [t |-> "error", exc |-> "Timeout"]
    /\ call.exc = "Timeout"
    /\ DOMAIN cache = {}

=============================================================================
